---- MODULE Spec2Model ----
(***************************************************************************)
(* Model of easyhid (src/easyhid/easyhid.py): the HIDDevice handle life    *)
(* cycle and I/O wrappers, Enumeration.find and _hid_enumerate, run        *)
(* against a fake native hidapi layer whose return values and buffer       *)
(* contents are chosen nondeterministically.  Python 3 semantics.          *)
(***************************************************************************)
EXTENDS Integers, Sequences, FiniteSets, TLC

\* ---------------------------------------------------------------- bounds
MaxLen == 2          \* longest data argument of write / send_feature_report
MaxSize == 2         \* largest size argument of read / get_feature_report
MaxHandles == 2      \* distinct native handle values hid_open_path can return
MaxNodes == 2        \* longest native hid_device_info list
MaxFilters == 2      \* most filter arguments supplied to one find call

\* ------------------------------------------------------ values and helpers
\* Python None is the empty tuple, any other value v is <<v>>.
None == <<>>
Some(v) == <<v>>

\* ffi.NULL
NULL == 0

Handles == 1..MaxHandles

\* byte values used for data and for what the native layer puts in buffers
ByteVals == {0, 9}
\* report ids tried by the callers; 256 does not fit a byte
ReportIds == {0, 7, 256}
\* the values accepted by bytes([...]) and by an unsigned char
IsByte(b) == b \in 0..255

RECURSIVE SeqsUpTo(_, _)
SeqsUpTo(S, n) ==
    IF n = 0 THEN {<<>>}
    ELSE LET shorter == SeqsUpTo(S, n - 1)
         IN  shorter \cup {Append(s, x) : s \in {t \in shorter : Len(t) = n - 1}, x \in S}

SeqsOfLen(S, n) == {s \in SeqsUpTo(S, n) : Len(s) = n}

\* [0] * size
Zeros(size) == [i \in 1..size |-> 0]

\* timeouts passed to read
Timeouts == {None, Some(100)}
\* arguments passed to set_nonblocking: two bools and one int
EnableVals == {"True", "False", "1"}
\* texts the native layer leaves in a wchar_t buffer
StrVals == {"", "Acme"}
\* negative and non-negative native status codes
ErrRets == {-2, -1}

NotOpenMsg == "HIDDevice not open"
AlreadyOpenMsg == "Failed to open device: HIDDevice already open"
OpenFailedMsg == "Failed to open device"
WriteFailedMsg == "Failed to write to HID device: "
ReadFailedMsg == "Failed to read from HID device: "
SendFeatureFailedMsg == "Failed to send feature report to HID device"
GetFeatureFailedMsg == "Failed to get feature report from HID device"

VARIABLES
    alive,        \* the HIDDevice object exists (constructed, not yet destroyed)
    is_open,      \* HIDDevice._is_open
    device,       \* HIDDevice._device: None or <<native handle>>
    live,         \* fake native layer: handles returned by hid_open_path and not yet hid_close'd
    bad_close,    \* fake native layer: hid_close was given a handle that was not live
    device_list,  \* Enumeration.device_list
    last          \* what the last operation was given, called and produced

vars == <<alive, is_open, device, live, bad_close, device_list, last>>

\* no native call
NoCall == [fn |-> "", handle |-> None, buf |-> <<>>, len |-> 0]

Call(fn, handle, buf, len) == [fn |-> fn, handle |-> handle, buf |-> buf, len |-> len]

\* The record of one operation.  exc = "" means the call returned normally.
Blank(op) ==
    [op |-> op,
     open0 |-> is_open,        \* _is_open when the operation started
     dev0 |-> device,          \* _device when the operation started
     live0 |-> live,           \* native live handles when the operation started
     data |-> <<>>, report_id |-> 0, size |-> 0, timeout |-> None, arg |-> "",
     index |-> 0,
     call |-> NoCall,          \* the native call made, if any
     nret |-> 0,               \* what the native call returned
     nbuf |-> <<>>,            \* the buffer as the native call left it
     ntext |-> None,           \* the text the native call left / returned
     exc |-> "", msg |-> "",   \* exception type and message
     crashed |-> FALSE,        \* the native call ran on a closed handle and crashed
     num |-> 0,                \* returned count
     bytes |-> <<>>,           \* returned byte sequence
     text |-> None,            \* returned text (None or <<string>>)
     encoded |-> FALSE,        \* the returned text is its utf-8 encoding (bytes)
     devs |-> <<>>,            \* returned descriptor list
     filter |-> <<>>,          \* find's arguments
     nodes |-> <<>>,           \* the native list enumerate was given
     events |-> <<>>]          \* enumerate's native events in order

Raise(r, exc, msg) == [r EXCEPT !.exc = exc, !.msg = msg]

Init ==
    /\ alive = TRUE
    /\ is_open = FALSE
    /\ device = None
    /\ live = {}
    /\ bad_close = FALSE
    /\ device_list = <<>>
    /\ last = Blank("init")

\* ------------------------------------------------------- fake native layer
\* hid_close(handle): releases the handle; notes a handle that was not live
hid_close(h) ==
    /\ live' = live \ {h}
    /\ bad_close' = (bad_close \/ h \notin live)

\* what hid_open_path can return: NULL or a handle that is not in use
OpenPathRets == {NULL} \cup (Handles \ live)

\* ------------------------------------------------------ HIDDevice life cycle
\* HIDDevice.__init__ (of the next object, once the previous one is gone)
construct ==
    /\ ~alive
    /\ alive' = TRUE
    /\ device' = None
    /\ is_open' = FALSE
    /\ last' = [Blank("__init__") EXCEPT !.open0 = FALSE, !.dev0 = None]
    /\ UNCHANGED <<live, bad_close, device_list>>

\* open without the test of _is_open
OpenBody_NoOpenTest(op) ==
    \E dev \in OpenPathRets :
        LET r == [Blank(op) EXCEPT !.call = Call("hid_open_path", None, <<>>, 0),
                                   !.nret = dev]
        IN  IF dev # NULL
            THEN /\ is_open' = TRUE
                 /\ device' = Some(dev)
                 /\ live' = live \cup {dev}
                 /\ last' = r
            ELSE /\ last' = Raise(r, "HIDException", OpenFailedMsg)
                 /\ UNCHANGED <<is_open, device, live>>

\* the body of HIDDevice.open, recorded under the name of the caller
OpenBody(op) ==
    IF is_open
    THEN /\ last' = Raise(Blank(op), "HIDException", AlreadyOpenMsg)
         /\ UNCHANGED <<is_open, device, live>>
    ELSE \E dev \in OpenPathRets :
            LET r == [Blank(op) EXCEPT !.call = Call("hid_open_path", None, <<>>, 0),
                                       !.nret = dev]
            IN  IF dev # NULL
                THEN /\ is_open' = TRUE
                     /\ device' = Some(dev)
                     /\ live' = live \cup {dev}
                     /\ last' = r
                ELSE /\ last' = Raise(r, "HIDException", OpenFailedMsg)
                     /\ UNCHANGED <<is_open, device, live>>

\* close that forgets to clear _is_open
CloseBody_KeepsOpen(op) ==
    IF is_open
    THEN /\ is_open' = is_open
         /\ hid_close(device[1])
         /\ last' = [Blank(op) EXCEPT !.call = Call("hid_close", device, <<>>, 0)]
    ELSE /\ last' = Blank(op)
         /\ UNCHANGED <<is_open, live, bad_close>>

\* the body of HIDDevice.close, recorded under the name of the caller
CloseBody(op) ==
    IF is_open
    THEN /\ is_open' = FALSE
         /\ hid_close(device[1])
         /\ last' = [Blank(op) EXCEPT !.call = Call("hid_close", device, <<>>, 0)]
    ELSE /\ last' = Blank(op)
         /\ UNCHANGED <<is_open, live, bad_close>>

\* HIDDevice.open
open ==
    /\ alive
    /\ OpenBody("open")
    /\ UNCHANGED <<alive, bad_close, device_list>>

\* HIDDevice.__enter__
enter ==
    /\ alive
    /\ OpenBody("__enter__")
    /\ UNCHANGED <<alive, bad_close, device_list>>

\* HIDDevice.close
close ==
    /\ alive
    /\ CloseBody("close")
    /\ UNCHANGED <<alive, device, device_list>>

\* HIDDevice.__exit__
exit ==
    /\ alive
    /\ CloseBody("__exit__")
    /\ UNCHANGED <<alive, device, device_list>>

\* HIDDevice.__del__: the object is gone afterwards
del ==
    /\ alive
    /\ CloseBody("__del__")
    /\ alive' = FALSE
    /\ UNCHANGED <<device, device_list>>

\* ------------------------------------------------------------ HIDDevice I/O
\* the report id put after the data instead of before it
PrependReportId_Appends(report_id, data) == data \o <<report_id>>

\* bytes([report_id]) + bytes(data)
PrependReportId(report_id, data) == <<report_id>> \o data

\* what hid_write / hid_send_feature_report can return for a buffer of n bytes
CountRets(n) == ErrRets \cup (0..n)

\* HIDDevice.write
write ==
    /\ alive
    /\ \E data \in SeqsUpTo(ByteVals, MaxLen), report_id \in ReportIds :
        LET r == [Blank("write") EXCEPT !.data = data, !.report_id = report_id]
        IN  IF ~is_open
            THEN last' = Raise(r, "HIDException", NotOpenMsg)
            ELSE IF ~IsByte(report_id)
            THEN last' = Raise(r, "ValueError", "")
            ELSE LET write_data == PrependReportId(report_id, data)
                 IN  \E num_written \in CountRets(Len(write_data)) :
                        LET c == [r EXCEPT !.call = Call("hid_write", device, write_data,
                                                         Len(write_data)),
                                           !.nret = num_written]
                        IN  IF num_written < 0
                            THEN last' = Raise(c, "HIDException", WriteFailedMsg)
                            ELSE last' = [c EXCEPT !.num = num_written]
    /\ UNCHANGED <<alive, is_open, device, live, bad_close, device_list>>

\* what the native read leaves in a buffer of size bytes after reading k of them
ReadFill(size, k, got) == got \o Zeros(size - k)

\* bytearray(cdata): the value read returns when bytes_read > 0
ReadResult(cdata, bytes_read) == cdata

\* HIDDevice.read
read ==
    /\ alive
    /\ \E size \in 0..MaxSize, timeout \in Timeouts :
        LET r == [Blank("read") EXCEPT !.size = size, !.timeout = timeout]
        IN  IF ~is_open
            THEN last' = Raise(r, "HIDException", NotOpenMsg)
            ELSE LET data == Zeros(size)
                     fn == IF timeout = None THEN "hid_read" ELSE "hid_read_timeout"
                 IN  \E bytes_read \in ErrRets \cup (0..size) :
                     \E got \in SeqsOfLen(ByteVals, IF bytes_read < 0 THEN 0 ELSE bytes_read) :
                        LET cdata == IF bytes_read < 0 THEN data
                                     ELSE ReadFill(size, bytes_read, got)
                            c == [r EXCEPT !.call = Call(fn, device, data, Len(data)),
                                           !.nret = bytes_read, !.nbuf = cdata]
                        IN  IF bytes_read < 0
                            THEN last' = Raise(c, "HIDException", ReadFailedMsg)
                            ELSE IF bytes_read = 0
                            THEN last' = c
                            ELSE last' = [c EXCEPT !.bytes = ReadResult(cdata, bytes_read)]
    /\ UNCHANGED <<alive, is_open, device, live, bad_close, device_list>>

\* type(enable_nonblocking) == bool
IsBool(v) == v \in {"True", "False"}

\* HIDDevice.set_nonblocking
set_nonblocking ==
    /\ alive
    /\ \E enable_nonblocking \in EnableVals :
        LET r == [Blank("set_nonblocking") EXCEPT !.arg = enable_nonblocking]
        IN  IF ~is_open
            THEN last' = Raise(r, "HIDException", NotOpenMsg)
            ELSE IF ~IsBool(enable_nonblocking)
            THEN last' = Raise(r, "TypeError", "")
            ELSE \E ret \in {-1, 0} :
                    last' = [r EXCEPT !.call = Call("hid_set_nonblocking", device, <<>>, 0),
                                      !.nret = ret]
    /\ UNCHANGED <<alive, is_open, device, live, bad_close, device_list>>

\* the test the feature-report wrappers make on the native count
FeatureFailed(bytes_read) == bytes_read = -1

\* HIDDevice.send_feature_report
send_feature_report ==
    /\ alive
    /\ \E data \in SeqsUpTo(ByteVals, MaxLen), report_id \in ReportIds :
        LET r == [Blank("send_feature_report") EXCEPT !.data = data, !.report_id = report_id]
        IN  IF ~is_open
            THEN last' = Raise(r, "HIDException", NotOpenMsg)
            ELSE IF ~IsByte(report_id)
            THEN last' = Raise(r, "ValueError", "")
            ELSE LET report == PrependReportId(report_id, data)
                 IN  \E bytes_read \in CountRets(Len(report)) :
                        LET c == [r EXCEPT !.call = Call("hid_send_feature_report", device,
                                                         report, Len(report)),
                                           !.nret = bytes_read]
                        IN  IF FeatureFailed(bytes_read)
                            THEN last' = Raise(c, "HIDException", SendFeatureFailedMsg)
                            ELSE last' = [c EXCEPT !.num = bytes_read]
    /\ UNCHANGED <<alive, is_open, device, live, bad_close, device_list>>

\* ------------------------------------- wrappers that do not test _is_open
\* How cffi and the native layer treat the hid_device* argument self._device:
\*   "reject"  None is not a cdata pointer, cffi raises TypeError before the call
\*   "valid"   the handle is open
\*   "stale"   the handle was closed: the native call works on freed memory
HandleArg == IF device = None THEN "reject"
             ELSE IF device[1] \in live THEN "valid" ELSE "stale"

\* a native call on freed memory may also kill the process
CrashChoices == IF HandleArg = "stale" THEN {FALSE, TRUE} ELSE {FALSE}

Crash(r) == [r EXCEPT !.crashed = TRUE, !.exc = "Crash"]

\* the slice taken from 0, keeping the report id
FeatureResult_FromZero(cdata, size) == SubSeq(cdata, 1, size)

\* bytearray(cdata[1:size+1])
FeatureResult(cdata, size) == SubSeq(cdata, 2, size + 1)

\* HIDDevice.get_feature_report
get_feature_report ==
    /\ alive
    /\ \E size \in 0..MaxSize, report_id \in ReportIds :
        LET r == [Blank("get_feature_report") EXCEPT !.size = size, !.report_id = report_id]
        IN  IF ~IsByte(report_id)
            THEN last' = Raise(r, "OverflowError", "")
            ELSE IF HandleArg = "reject"
            THEN last' = Raise(r, "TypeError", "")
            ELSE LET cdata0 == <<report_id>> \o Zeros(size)
                 IN  \E bytes_read \in ErrRets \cup (0..(size + 1)), crash \in CrashChoices :
                     \E got \in SeqsOfLen(ByteVals, IF bytes_read < 0 THEN 0 ELSE size) :
                        LET cdata == IF bytes_read < 0 THEN cdata0 ELSE <<report_id>> \o got
                            c == [r EXCEPT !.call = Call("hid_get_feature_report", device,
                                                         cdata0, size + 1),
                                           !.nret = bytes_read, !.nbuf = cdata]
                        IN  IF crash
                            THEN last' = Crash([c EXCEPT !.nret = 0, !.nbuf = <<>>])
                            ELSE IF FeatureFailed(bytes_read)
                            THEN last' = Raise(c, "HIDException", GetFeatureFailedMsg)
                            ELSE last' = [c EXCEPT !.bytes = FeatureResult(cdata, size)]
    /\ UNCHANGED <<alive, is_open, device, live, bad_close, device_list>>

\* HIDDevice.get_error
get_error ==
    /\ alive
    /\ LET r == Blank("get_error")
       IN  IF HandleArg = "reject"
           THEN last' = Raise(r, "TypeError", "")
           ELSE \E err_str \in {None} \cup {Some(t) : t \in StrVals}, crash \in CrashChoices :
                   LET c == [r EXCEPT !.call = Call("hid_error", device, <<>>, 0),
                                      !.ntext = err_str]
                   IN  IF crash
                       THEN last' = Crash([c EXCEPT !.ntext = None])
                       ELSE last' = [c EXCEPT !.text = err_str]
    /\ UNCHANGED <<alive, is_open, device, live, bad_close, device_list>>

\* what the string queries can return
StringRets == ErrRets \cup {0, 1}

\* raise HIDException(self._device.get_error()): _device is a cdata pointer to
\* the opaque hid_device, it has no attribute get_error, so evaluating the
\* argument raises AttributeError and no HIDException is built
RaiseStringError(r) == Raise(r, "AttributeError", "")

\* HIDDevice._get_prod_string_common, recorded under the name of the caller
get_prod_string_common(op, hid_fn) ==
    /\ alive
    /\ LET max_len == 128
           r == Blank(op)
       IN  IF HandleArg = "reject"
           THEN last' = Raise(r, "TypeError", "")
           ELSE \E ret \in StringRets, str_buf \in StrVals, crash \in CrashChoices,
                   asserts_on \in BOOLEAN :
                   LET c == [r EXCEPT !.call = Call(hid_fn, device, <<>>, max_len),
                                      !.nret = ret,
                                      !.ntext = Some(IF ret < 0 THEN "" ELSE str_buf)]
                   IN  IF crash
                       THEN last' = Crash([c EXCEPT !.nret = 0, !.ntext = None])
                       ELSE IF ret < 0
                       THEN last' = RaiseStringError(c)
                       ELSE IF asserts_on /\ ret # 0
                       THEN last' = Raise(c, "AssertionError", "")
                       ELSE last' = [c EXCEPT !.text = c.ntext]
    /\ UNCHANGED <<alive, is_open, device, live, bad_close, device_list>>

\* HIDDevice.get_manufacture_string
get_manufacture_string ==
    get_prod_string_common("get_manufacture_string", "hid_get_manufacturer_string")

\* HIDDevice.get_product_string
get_product_string ==
    get_prod_string_common("get_product_string", "hid_get_product_string")

\* HIDDevice.get_serial_number
get_serial_number ==
    get_prod_string_common("get_serial_number", "hid_get_serial_number_string")

\* string indexes asked for
Indexes == {1, 2}

\* HIDDevice.get_indexed_string
get_indexed_string ==
    /\ alive
    /\ \E index \in Indexes :
       LET max_len == 128
           r == [Blank("get_indexed_string") EXCEPT !.index = index]
       IN  IF HandleArg = "reject"
           THEN last' = Raise(r, "TypeError", "")
           ELSE \E ret \in StringRets, str_buf \in StrVals, crash \in CrashChoices :
                   LET c == [r EXCEPT !.call = Call("hid_get_indexed_string", device, <<>>,
                                                    max_len),
                                      !.nret = ret,
                                      !.ntext = Some(IF ret <= 0 THEN "" ELSE str_buf)]
                   IN  IF crash
                       THEN last' = Crash([c EXCEPT !.nret = 0, !.ntext = None])
                       ELSE IF ret < 0
                       THEN last' = RaiseStringError(c)
                       ELSE IF ret = 0
                       THEN last' = c
                       ELSE last' = [c EXCEPT !.text = c.ntext, !.encoded = TRUE]
    /\ UNCHANGED <<alive, is_open, device, live, bad_close, device_list>>

\* ------------------------------------------------------------ specification
Next ==
    \/ construct
    \/ open
    \/ enter
    \/ close
    \/ exit
    \/ del
    \/ write
    \/ read
    \/ set_nonblocking
    \/ send_feature_report
    \/ get_feature_report
    \/ get_error
    \/ get_manufacture_string
    \/ get_product_string
    \/ get_serial_number
    \/ get_indexed_string

Spec == Init /\ [][Next]_vars

\* ------------------------------------------------------------- Enumeration
\* bytes.decode("utf-8") of a char* string holding one- and two-byte sequences
\* (every lead byte in the node pool is below 0xE0): the code points, or
\* <<-1>> where Python raises UnicodeDecodeError
RECURSIVE Utf8Decode(_)
Utf8Decode(b) ==
    IF b = <<>> THEN <<>>
    ELSE IF b[1] < 128
    THEN LET rest == Utf8Decode(Tail(b))
         IN  IF rest = <<-1>> THEN <<-1>> ELSE <<b[1]>> \o rest
    ELSE IF b[1] \in 194..223 /\ Len(b) >= 2 /\ b[2] \in 128..191
    THEN LET rest == Utf8Decode(Tail(Tail(b)))
         IN  IF rest = <<-1>> THEN <<-1>>
             ELSE <<(b[1] - 192) * 64 + (b[2] - 128)>> \o rest
    ELSE <<-1>>

\* _c_to_py_str for a char*: None for NULL, else the decoded text
c_to_py_str(val) == IF val = None THEN None ELSE Some(Utf8Decode(val[1]))

\* _c_to_py_str raised UnicodeDecodeError
DecodeFails(val) == val # None /\ Utf8Decode(val[1]) = <<-1>>

\* hid_device_info records the native layer can hand out.  path is a char*
\* (None for NULL, else <<bytes>>), the other strings are wchar_t* (None for
\* NULL, else <<text>>).
NodePool ==
    { [path |-> Some(<<47, 97>>), vendor_id |-> 1, product_id |-> 1,
       serial_number |-> Some("S1"), release_number |-> 0,
       manufacturer_string |-> Some("Acme"), product_string |-> Some("Pad"),
       usage_page |-> 1, usage |-> 0, interface_number |-> 0],
      [path |-> Some(<<47, 195, 169>>), vendor_id |-> 2, product_id |-> 1,
       serial_number |-> Some(""), release_number |-> 1,
       manufacturer_string |-> Some(""), product_string |-> None,
       usage_page |-> 0, usage |-> 1, interface_number |-> 1],
      [path |-> None, vendor_id |-> 1, product_id |-> 2,
       serial_number |-> None, release_number |-> 1,
       manufacturer_string |-> Some("Acme"), product_string |-> Some(""),
       usage_page |-> 1, usage |-> 1, interface_number |-> -1],
      [path |-> Some(<<47, 255>>), vendor_id |-> 1, product_id |-> 1,
       serial_number |-> Some("S1"), release_number |-> 0,
       manufacturer_string |-> Some("Acme"), product_string |-> Some("Pad"),
       usage_page |-> 1, usage |-> 0, interface_number |-> 0] }

\* hid_enumerate(vendor_id, product_id): any list of at most MaxNodes attached
\* interfaces that match the ids, 0 matching any
NativeLists(vendor_id, product_id) ==
    SeqsUpTo({n \in NodePool : /\ vendor_id \in {0, n.vendor_id}
                               /\ product_id \in {0, n.product_id}}, MaxNodes)

\* HIDDevice.__init__: the descriptor copied out of a non-NULL node
Descriptor(cdata) ==
    [path |-> c_to_py_str(cdata.path),
     vendor_id |-> cdata.vendor_id,
     product_id |-> cdata.product_id,
     release_number |-> cdata.release_number,
     manufacturer_string |-> cdata.manufacturer_string,
     product_string |-> cdata.product_string,
     serial_number |-> cdata.serial_number,
     usage_page |-> cdata.usage_page,
     usage |-> cdata.usage,
     interface_number |-> cdata.interface_number]

Ev(ev, node) == [ev |-> ev, node |-> node]

\* the while loop of _hid_enumerate from node cur on: the descriptors built,
\* the nodes read, and whether a construction raised
RECURSIVE Traverse(_, _, _, _)
Traverse(nodes, cur, result, events) ==
    IF cur > Len(nodes)
    THEN [result |-> result, events |-> events, exc |-> ""]
    ELSE IF DecodeFails(nodes[cur].path)
    THEN [result |-> result, events |-> Append(events, Ev("read", cur)),
          exc |-> "UnicodeDecodeError"]
    ELSE Traverse(nodes, cur + 1, Append(result, Descriptor(nodes[cur])),
                  Append(events, Ev("read", cur)))

\* node index of the list head, NULL for the empty list
ListHead(nodes) == IF nodes = <<>> THEN NULL ELSE 1

\* _hid_enumerate: what it returns or raises and the native events in order
hid_enumerate(nodes) ==
    LET start == ListHead(nodes)
        t == Traverse(nodes, 1, <<>>, <<Ev("hid_enumerate", start)>>)
    IN  IF t.exc # ""
        THEN t
        ELSE [t EXCEPT !.events = Append(t.events, Ev("hid_free_enumeration", start))]

\* Enumeration.__init__
enumerate ==
    /\ \E vid \in {0, 1}, pid \in {0, 1} :
       \E nodes \in NativeLists(vid, pid) :
          LET t == hid_enumerate(nodes)
              r == [Blank("enumerate") EXCEPT !.nodes = nodes, !.events = t.events]
          IN  IF t.exc # ""
              THEN /\ last' = Raise(r, t.exc, "")
                   /\ UNCHANGED device_list
              ELSE /\ last' = [r EXCEPT !.devs = t.result]
                   /\ device_list' = t.result
    /\ UNCHANGED <<alive, is_open, device, live, bad_close>>

\* Python truth value of an optional text argument: None and "" are false
Truthy(s) == s # None /\ s[1] # ""

\* the same for a path, whose text is a sequence of code points
TruthyPath(s) == s # None /\ s[1] # <<>>

\* the values tried for each argument of find
FilterValues ==
    [vid : {None, Some(0), Some(1)},
     pid : {None, Some(1)},
     serial : {None, Some(""), Some("S1")},
     interface : {None, Some(0)},
     path : {None, Some(<<>>), Some(<<47, 97>>)},
     release_number : {None, Some(0)},
     manufacturer : {None, Some("Acme")},
     product : {None, Some("")},
     usage : {None, Some(0)},
     usage_page : {None, Some(1)}]

\* the arguments find is called with: at most MaxFilters of them supplied
Filters ==
    {f \in FilterValues : Cardinality({k \in DOMAIN f : f[k] # None}) <= MaxFilters}

\* the body of find's loop: dev is appended to the result
Keeps(dev, f) ==
    /\ ~(f.vid \notin {Some(0), None} /\ dev.vendor_id # f.vid[1])
    /\ ~(f.pid \notin {Some(0), None} /\ dev.product_id # f.pid[1])
    /\ ~(Truthy(f.serial) /\ dev.serial_number # f.serial)
    /\ ~(TruthyPath(f.path) /\ dev.path # f.path)
    /\ ~(Truthy(f.manufacturer) /\ dev.manufacturer_string # f.manufacturer)
    /\ ~(Truthy(f.product) /\ dev.product_string # f.product)
    /\ ~(f.release_number # None /\ dev.release_number # f.release_number[1])
    /\ ~(f.interface # None /\ dev.interface_number # f.interface[1])
    /\ ~(f.usage # None /\ dev.usage # f.usage[1])
    /\ ~(f.usage_page # None /\ dev.usage_page # f.usage_page[1])

\* Enumeration.find
find ==
    /\ \E f \in Filters :
          last' = [Blank("find") EXCEPT !.filter = Some(f),
                                        !.devs = SelectSeq(device_list, LAMBDA dev : Keeps(dev, f))]
    /\ UNCHANGED <<alive, is_open, device, live, bad_close, device_list>>

NextEnum ==
    \/ enumerate
    \/ find

SpecEnum == Init /\ [][NextEnum]_vars

\* ================================================================ properties
IoOps == {"write", "read", "set_nonblocking", "send_feature_report", "get_feature_report"}
OpenOps == {"open", "__enter__"}
CloseOps == {"close", "__exit__", "__del__"}
ProdStringOps == {"get_manufacture_string", "get_product_string", "get_serial_number"}

NotOpenError(r) == r.exc = "HIDException" /\ r.msg = NotOpenMsg

\* C1: every I/O operation on a Closed handle (write, read, set_nonblocking,
\* send_feature_report, get_feature_report) fails with the not-open error,
\* makes no native call and leaves the handle Closed.
C1_ClosedIoFailsNotOpen ==
    (last.op \in IoOps /\ ~last.open0) =>
        /\ NotOpenError(last)
        /\ last.call = NoCall
        /\ ~is_open

\* C2: close() (also through __exit__ and __del__) on an Open handle makes
\* is_open false and passes the stored handle to hid_close, once; on a Closed
\* handle it makes no native call and changes nothing; hid_close is never
\* given a handle that is not live (no double close, no leak); a handle that
\* was opened and closed opens again whenever hid_open_path returns non-null.
C2_CloseOnceAndReopen ==
    /\ ~bad_close
    /\ live = (IF alive /\ is_open THEN {device[1]} ELSE {})
    /\ (last.op \in CloseOps /\ last.open0) =>
            /\ ~is_open
            /\ last.exc = ""
            /\ last.call = Call("hid_close", last.dev0, <<>>, 0)
            /\ live = last.live0 \ {last.dev0[1]}
    /\ (last.op \in CloseOps /\ ~last.open0) =>
            /\ ~is_open
            /\ last.exc = ""
            /\ last.call = NoCall
            /\ live = last.live0
    /\ (last.op \in OpenOps /\ ~last.open0 /\ last.dev0 # None /\ last.nret # NULL) =>
            /\ is_open
            /\ last.exc = ""

\* C2 witness: a handle that was opened and closed has been opened again
C2_Witness ==
    /\ last.op = "open" /\ ~last.open0 /\ last.dev0 # None /\ is_open

\* C3: open() on an Open handle fails with the already-open error, makes no
\* native call and leaves is_open and the stored handle as they were; on a
\* Closed handle it fails with the open error when hid_open_path returns
\* NULL, leaving the handle Closed, and otherwise becomes Open and stores the
\* returned handle.
C3_OpenOutcomes ==
    last.op \in OpenOps =>
        /\ last.open0 =>
            /\ last.exc = "HIDException" /\ last.msg = AlreadyOpenMsg
            /\ last.call = NoCall
            /\ is_open
            /\ device = last.dev0
            /\ live = last.live0
        /\ (~last.open0 /\ last.nret = NULL) =>
            /\ last.exc = "HIDException" /\ last.msg = OpenFailedMsg
            /\ last.call.fn = "hid_open_path"
            /\ ~is_open
        /\ (~last.open0 /\ last.nret # NULL) =>
            /\ last.exc = ""
            /\ last.call.fn = "hid_open_path"
            /\ is_open
            /\ device = Some(last.nret)

\* C3 witness: open() was called on an Open handle and refused
C3_Witness ==
    /\ last.op = "open" /\ last.open0 /\ last.exc = "HIDException"

\* C4: write(data, report_id) on an Open handle passes exactly Len(data)+1
\* bytes to hid_write, report_id first and data after it unchanged, returns
\* the native count when it is >= 0 and fails with the write error when it
\* is negative.
C4_WritePrependsReportId ==
    (last.op = "write" /\ last.open0 /\ IsByte(last.report_id)) =>
        /\ last.call.fn = "hid_write"
        /\ last.call.handle = last.dev0
        /\ last.call.len = Len(last.data) + 1
        /\ Len(last.call.buf) = Len(last.data) + 1
        /\ last.call.buf[1] = last.report_id
        /\ \A i \in 1..Len(last.data) : last.call.buf[i + 1] = last.data[i]
        /\ last.nret >= 0 => (last.exc = "" /\ last.num = last.nret)
        /\ last.nret < 0 => (last.exc = "HIDException" /\ last.msg = WriteFailedMsg)

\* C4 witness: a two-byte write with report id 7 for which hid_write returned 3
C4_Witness ==
    /\ last.op = "write" /\ last.open0
    /\ last.report_id = 7 /\ last.data = <<9, 0>>
    /\ last.nret = 3 /\ last.num = 3

\* C5: read(size, timeout) on an Open handle fails with the read error for a
\* negative native count, returns the empty sequence for count 0, and for a
\* count k with 0 < k <= size returns exactly the first k bytes of the
\* buffer (length k, not size).
C5_ReadReturnsBytesRead ==
    (last.op = "read" /\ last.open0) =>
        /\ last.nret < 0 => (last.exc = "HIDException" /\ last.msg = ReadFailedMsg)
        /\ last.nret = 0 => (last.exc = "" /\ last.bytes = <<>>)
        /\ last.nret > 0 => (last.exc = "" /\ last.bytes = SubSeq(last.nbuf, 1, last.nret))

\* C6: get_feature_report(size, report_id) passes the native call a buffer of
\* exactly size+1 bytes, report_id first and zeros after it, and when the
\* native count is >= 0 returns exactly the size bytes at buffer positions
\* 1..size as the native layer left them, without the report id.
C6_GetFeatureStripsReportId ==
    last.op = "get_feature_report" =>
        /\ (last.open0 /\ IsByte(last.report_id)) =>
                last.call.fn = "hid_get_feature_report"
        /\ last.call # NoCall =>
            /\ last.call.fn = "hid_get_feature_report"
            /\ last.call.len = last.size + 1
            /\ Len(last.call.buf) = last.size + 1
            /\ last.call.buf[1] = last.report_id
            /\ \A i \in 2..(last.size + 1) : last.call.buf[i] = 0
            /\ (~last.crashed /\ last.nret >= 0) =>
                /\ last.exc = ""
                /\ Len(last.bytes) = last.size
                /\ \A i \in 1..last.size : last.bytes[i] = last.nbuf[i + 1]

\* C6 witness: size 2, report id 7, the native layer filled in 9, 9
C6_Witness ==
    /\ last.op = "get_feature_report" /\ last.open0
    /\ last.size = 2 /\ last.report_id = 7
    /\ last.call.buf = <<7, 0, 0>>
    /\ last.nbuf = <<7, 9, 9>>
    /\ last.nret = 3
    /\ last.bytes = <<9, 9>>

\* C9: send_feature_report and get_feature_report on an Open handle fail
\* with the feature-report error for every negative native count and return
\* a result only for a count >= 0.
C9_FeatureNegativeFails ==
    (last.op \in {"send_feature_report", "get_feature_report"}
        /\ last.open0 /\ last.call # NoCall) =>
        /\ last.nret < 0 => last.exc = "HIDException"
        /\ last.exc = "" => last.nret >= 0

\* C10: on an Open handle a negative return of a string query fails with the
\* library's HIDException and nothing else; a zero return of the indexed
\* query gives None without error; every non-negative return of the other
\* three getters gives the text in the buffer without error.
C10_StringGetterOutcomes ==
    (last.op \in ProdStringOps \cup {"get_indexed_string"} /\ last.open0) =>
        /\ last.nret < 0 => last.exc = "HIDException"
        /\ (last.op = "get_indexed_string" /\ last.nret = 0) =>
                (last.exc = "" /\ last.text = None)
        /\ (last.op \in ProdStringOps /\ last.nret >= 0) =>
                (last.exc = "" /\ last.text = last.ntext)

\* what C7 says an argument does: None (for vid and pid also 0) does not
\* filter, anything else is compared by equality
Unfiltered(arg) == arg = None
UnfilteredId(arg) == arg \in {None, Some(0)}

ClaimedKeeps(dev, f) ==
    /\ UnfilteredId(f.vid) \/ dev.vendor_id = f.vid[1]
    /\ UnfilteredId(f.pid) \/ dev.product_id = f.pid[1]
    /\ Unfiltered(f.serial) \/ dev.serial_number = f.serial
    /\ Unfiltered(f.path) \/ dev.path = f.path
    /\ Unfiltered(f.manufacturer) \/ dev.manufacturer_string = f.manufacturer
    /\ Unfiltered(f.product) \/ dev.product_string = f.product
    /\ Unfiltered(f.release_number) \/ dev.release_number = f.release_number[1]
    /\ Unfiltered(f.interface) \/ dev.interface_number = f.interface[1]
    /\ Unfiltered(f.usage) \/ dev.usage = f.usage[1]
    /\ Unfiltered(f.usage_page) \/ dev.usage_page = f.usage_page[1]

\* C7: find returns, in input order, exactly the descriptors whose fields
\* equal every supplied argument; vid and pid are unfiltered when None or 0;
\* for the other eight arguments only None disables the filter, so 0 and the
\* empty string are compared by equality.
C7_FindExactEquality ==
    last.op = "find" =>
        last.devs = SelectSeq(device_list, LAMBDA dev : ClaimedKeeps(dev, last.filter[1]))

FreeEvents(events) == {i \in DOMAIN events : events[i].ev = "hid_free_enumeration"}

\* C8: for a native list of n nodes the enumeration returns n descriptors in
\* node order, and hid_free_enumeration is called exactly once, on the list
\* head, after every node read - also when n = 0 and when a descriptor
\* construction fails part way.
C8_FreedExactlyOnce ==
    last.op = "enumerate" =>
        /\ Cardinality(FreeEvents(last.events)) = 1
        /\ last.events[Len(last.events)] = Ev("hid_free_enumeration", ListHead(last.nodes))
        /\ last.exc = "" =>
            /\ Len(last.devs) = Len(last.nodes)
            /\ \A i \in 1..Len(last.nodes) : last.devs[i] = Descriptor(last.nodes[i])

====
